---------------------------- MODULE Spec2Model ----------------------------
(***************************************************************************)
(* A model of main.py, the GPA calculator: the brace scanner                *)
(* extract_json_objects, the row loader, the score resolver                 *)
(* estimate_zcj_from_row, the Official filter extract_official_courses,     *)
(* the core-major classifier, the aggregators and the report of main.       *)
(*                                                                         *)
(* Text.  A Python str is a sequence of characters; a character is a       *)
(* one-element token: an ASCII character is itself ("a", "{"), a CJK       *)
(* character is named by its code point ("u5FC5").                         *)
(*                                                                         *)
(* Numbers.  A Python float is one of                                      *)
(*   [k |-> "fin", n, d]  the finite value n/d in lowest terms, d > 0,     *)
(*   [k |-> "nan"]        not-a-number,                                    *)
(*   [k |-> "inf", n]     +infinity (n = 1) or -infinity (n = -1);         *)
(* None is [k |-> "none"] and a raised exception is [k |-> "raise"], so    *)
(* that an Optional[float] is one record type.  Finite arithmetic is       *)
(* exact rational arithmetic: binary64 rounding is not modelled.           *)
(***************************************************************************)
EXTENDS Integers, Sequences, FiniteSets, TLC

VARIABLES scan, off, res, agg, mn

vars == <<scan, off, res, agg, mn>>

---------------------------------------------------------------------------
(* Floats *)

Abs(x) == IF x < 0 THEN -x ELSE x

Sgn(x) == IF x < 0 THEN -1 ELSE IF x = 0 THEN 0 ELSE 1

RECURSIVE Gcd(_, _)
Gcd(a, b) == IF b = 0 THEN a ELSE Gcd(b, a % b)

RECURSIVE Pow10(_)
Pow10(e) == IF e = 0 THEN 1 ELSE 10 * Pow10(e - 1)

None == [k |-> "none", n |-> 0, d |-> 1]

Raise == [k |-> "raise", n |-> 0, d |-> 1]

NaN == [k |-> "nan", n |-> 0, d |-> 1]

Inf(s) == [k |-> "inf", n |-> s, d |-> 1]

Reduce(n, d, g) == [k |-> "fin", n |-> n \div g, d |-> d \div g]

Fin(n, d) == Reduce(n, d, Gcd(Abs(n), d))

IsZero(x) == x.k = "fin" /\ x.n = 0

\* a * b on floats
FMul(a, b) ==
    IF a.k = "nan" \/ b.k = "nan" THEN NaN
    ELSE IF a.k = "inf" \/ b.k = "inf"
         THEN IF IsZero(a) \/ IsZero(b) THEN NaN ELSE Inf(Sgn(a.n) * Sgn(b.n))
         ELSE Fin(a.n * b.n, a.d * b.d)

\* a + b on floats
FAdd(a, b) ==
    IF a.k = "nan" \/ b.k = "nan" THEN NaN
    ELSE IF a.k = "inf" /\ b.k = "inf"
         THEN IF a.n = b.n THEN a ELSE NaN
         ELSE IF a.k = "inf" THEN a
         ELSE IF b.k = "inf" THEN b
         ELSE Fin(a.n * b.d + b.n * a.d, a.d * b.d)

\* a / b on floats; a zero divisor raises ZeroDivisionError
FDiv(a, b) ==
    IF IsZero(b) THEN Raise
    ELSE IF a.k = "nan" \/ b.k = "nan" THEN NaN
    ELSE IF a.k = "inf"
         THEN IF b.k = "inf" THEN NaN ELSE Inf(a.n * Sgn(b.n))
         ELSE IF b.k = "inf" THEN Fin(0, 1)
         ELSE Fin(a.n * b.d * Sgn(b.n), a.d * Abs(b.n))

\* a <= b on floats: every comparison with NaN is false
FLe(a, b) ==
    IF a.k = "nan" \/ b.k = "nan" THEN FALSE
    ELSE IF a.k = "inf" THEN a.n = -1 \/ (b.k = "inf" /\ b.n = 1)
    ELSE IF b.k = "inf" THEN b.n = 1
    ELSE a.n * b.d <= b.n * a.d

FGe(a, b) == FLe(b, a)

\* bool(x) of an Optional[float]: None and 0.0 are falsy, NaN is truthy
Truthy(x) == x.k # "none" /\ ~IsZero(x)

---------------------------------------------------------------------------
(* Characters and strings *)

Digits == <<"0", "1", "2", "3", "4", "5", "6", "7", "8", "9">>

UpperCase ==
    <<"A", "B", "C", "D", "E", "F", "G", "H", "I", "J", "K", "L", "M",
      "N", "O", "P", "Q", "R", "S", "T", "U", "V", "W", "X", "Y", "Z">>

LowerCase ==
    <<"a", "b", "c", "d", "e", "f", "g", "h", "i", "j", "k", "l", "m",
      "n", "o", "p", "q", "r", "s", "t", "u", "v", "w", "x", "y", "z">>

IsDigit(c) == \E j \in 1..10 : Digits[j] = c

DigitVal(c) == (CHOOSE j \in 1..10 : Digits[j] = c) - 1

IsSpace(c) == c \in {" ", "\t", "\n", "\r"}

LowerChar(c) ==
    IF \E j \in 1..26 : UpperCase[j] = c
    THEN LowerCase[CHOOSE j \in 1..26 : UpperCase[j] = c]
    ELSE c

\* str.lower()
LowerStr(s) == [j \in 1..Len(s) |-> LowerChar(s[j])]

RECURSIVE LStrip(_)
LStrip(s) == IF s # <<>> /\ IsSpace(Head(s)) THEN LStrip(Tail(s)) ELSE s

RECURSIVE RStrip(_)
RStrip(s) ==
    IF s # <<>> /\ IsSpace(s[Len(s)]) THEN RStrip(SubSeq(s, 1, Len(s) - 1)) ELSE s

\* str.strip()
Strip(s) == RStrip(LStrip(s))

\* needle in hay, on strings
Contains(needle, hay) ==
    \E j \in 0..(Len(hay) - Len(needle)) :
        SubSeq(hay, j + 1, j + Len(needle)) = needle

RECURSIVE DigitsVal(_)
DigitsVal(s) ==
    IF s = <<>> THEN 0
    ELSE 10 * DigitsVal(SubSeq(s, 1, Len(s) - 1)) + DigitVal(s[Len(s)])

RECURSIVE NatStr(_)
NatStr(n) == IF n < 10 THEN <<Digits[n + 1]>> ELSE Append(NatStr(n \div 10), Digits[(n % 10) + 1])

AllDigits(s) == \A j \in 1..Len(s) : IsDigit(s[j])

\* the index of the first "." of s, Len(s) + 1 when it has none
DotIndex(s) ==
    IF \E j \in 1..Len(s) : s[j] = "."
    THEN CHOOSE j \in 1..Len(s) : s[j] = "." /\ \A h \in 1..(j - 1) : s[h] # "."
    ELSE Len(s) + 1

\* the decimal literal with integer part ip and fraction part fp
PyFloatParts(sg, ip, fp) ==
    IF AllDigits(ip) /\ AllDigits(fp) /\ Len(ip) + Len(fp) > 0
    THEN Fin(sg * DigitsVal(ip \o fp), Pow10(Len(fp)))
    ELSE Raise

PyFloatDecimal(sg, body, dot) ==
    PyFloatParts(sg, SubSeq(body, 1, dot - 1), SubSeq(body, dot + 1, Len(body)))

PyFloatBody(sg, body) ==
    IF body = <<"n", "a", "n">> THEN NaN
    ELSE IF body = <<"i", "n", "f">> \/ body = <<"i", "n", "f", "i", "n", "i", "t", "y">>
         THEN Inf(sg)
    ELSE PyFloatDecimal(sg, body, DotIndex(body))

PyFloatSigned(t) ==
    PyFloatBody(IF t # <<>> /\ Head(t) = "-" THEN -1 ELSE 1,
                IF t # <<>> /\ Head(t) \in {"+", "-"} THEN Tail(t) ELSE t)

\* float(s) of a str: surrounding whitespace is ignored; nan, inf and
\* infinity are accepted in any case and with a sign; otherwise a decimal
\* literal [sign] digits [. digits] with at least one digit (the exponent
\* and underscore forms are left out); anything else raises ValueError.
PyFloatStr(s) == PyFloatSigned(LowerStr(Strip(s)))

---------------------------------------------------------------------------
(* JSON values of a row's fields: null (or the key absent, which           *)
(* row.get(key) turns into None), a string, or a number.                   *)

RNull == [t |-> "null", s |-> <<>>, v |-> None]

RStr(s) == [t |-> "str", s |-> s, v |-> None]

RNum(f) == [t |-> "num", s |-> <<>>, v |-> f]

\* the least e with 10^e * n / d an integer, for a decimal fraction n / d
DecimalPlaces(n, d) ==
    CHOOSE e \in 0..6 : (Pow10(e) * n) % d = 0 /\ \A f \in 0..(e - 1) : (Pow10(f) * n) % d # 0

ZeroPad(s, e) == [j \in 1..(e - Len(s)) |-> "0"] \o s

\* the digits of m / 10^e, with the point when e > 0
DecimalStr(m, e) ==
    NatStr(m \div Pow10(e)) \o (IF e = 0 THEN <<>> ELSE <<".">> \o ZeroPad(NatStr(m % Pow10(e)), e))

FiniteStr(n, d, e) == (IF n < 0 THEN <<"-">> ELSE <<>>) \o DecimalStr((Pow10(e) * Abs(n)) \div d, e)

\* str(x): a string is itself; a number prints so that float() reads the
\* same value back ("3", "2.5", "nan", "inf", "-inf")
PyStr(x) ==
    IF x.t = "str" THEN x.s
    ELSE IF x.t = "null" THEN <<"N", "o", "n", "e">>
    ELSE IF x.v.k = "nan" THEN <<"n", "a", "n">>
    ELSE IF x.v.k = "inf"
         THEN (IF x.v.n < 0 THEN <<"-">> ELSE <<>>) \o <<"i", "n", "f">>
    ELSE FiniteStr(x.v.n, x.v.d, DecimalPlaces(Abs(x.v.n), x.v.d))

\* float(x): TypeError for None, float(str) for a string, the value itself
\* for a number
PyFloat(x) ==
    IF x.t = "null" THEN Raise
    ELSE IF x.t = "str" THEN PyFloatStr(x.s)
    ELSE x.v

---------------------------------------------------------------------------
(* json.loads, on the characters the scanned texts are made of: an object  *)
(* is {} or { string : value , ... }, a value is a number, a string or an  *)
(* object, and a string runs from a quote to the next quote, braces        *)
(* included.  Each J-operator takes the text and the index it starts at    *)
(* and gives the index after what it parsed, or 0 when it cannot parse.    *)

Quote == "\""

JString(s, p) ==
    IF p >= 1 /\ p <= Len(s) /\ s[p] = Quote /\ \E q \in (p + 1)..Len(s) : s[q] = Quote
    THEN (CHOOSE q \in (p + 1)..Len(s) :
              s[q] = Quote /\ \A r \in (p + 1)..(q - 1) : s[r] # Quote) + 1
    ELSE 0

RECURSIVE JDigits(_, _)
JDigits(s, p) == IF p <= Len(s) /\ IsDigit(s[p]) THEN JDigits(s, p + 1) ELSE p

JNumber(s, p) ==
    IF p >= 1 /\ p <= Len(s) /\ IsDigit(s[p])
       /\ ~(s[p] = "0" /\ p < Len(s) /\ IsDigit(s[p + 1]))
    THEN JDigits(s, p)
    ELSE 0

RECURSIVE JValue(_, _)
RECURSIVE JMembers(_, _)
JObject(s, p) ==
    IF p >= 1 /\ p < Len(s) /\ s[p] = "{"
    THEN IF s[p + 1] = "}" THEN p + 2 ELSE JMembers(s, p + 1)
    ELSE 0

JMembers(s, p) ==
    LET c == JString(s, p)
        v == IF c # 0 /\ c <= Len(s) /\ s[c] = ":" THEN JValue(s, c + 1) ELSE 0
    IN  IF v = 0 \/ v > Len(s) THEN 0
        ELSE IF s[v] = "}" THEN v + 1
        ELSE IF s[v] = "," THEN JMembers(s, v + 1)
        ELSE 0

JValue(s, p) ==
    IF p < 1 \/ p > Len(s) THEN 0
    ELSE IF s[p] = "{" THEN JObject(s, p)
    ELSE IF s[p] = Quote THEN JString(s, p)
    ELSE JNumber(s, p)

\* json.loads(js) returns (does not raise) on a text that begins with "{"
IsJsonObject(s) == JObject(s, 1) = Len(s) + 1

---------------------------------------------------------------------------
(* extract_json_objects: the scan, one character a step.  Positions are    *)
(* 1-based; start = 0 is the code's start = None.  scan.spans records the  *)
(* (start, i) of each append, in the order of the appends.                 *)

MaxTextLen == 7

MaxStrLen == 1

MaxFill == 1

SeqsUpTo(A, n) == UNION {[1..m -> A] : m \in 0..n}

BraceTexts == SeqsUpTo({"{", "}", "x"}, MaxTextLen)

\* valid JSON object texts: {} and {string: value} with value a number, a
\* string or {}, the strings holding any characters but the quote
JsonStrings == {<<Quote>> \o c \o <<Quote>> : c \in SeqsUpTo({"{", "}", ":", "1"}, MaxStrLen)}

JsonObjects ==
    {<<"{", "}">>} \cup
    {<<"{">> \o c \o <<":">> \o v \o <<"}">> :
        c \in JsonStrings, v \in {<<"1">>, <<"{", "}">>} \cup JsonStrings}

Fillers == SeqsUpTo({"x"}, MaxFill)

ScanIdle == [text |-> <<>>, i |-> 1, brace |-> 0, start |-> 0,
             objs |-> <<>>, spans |-> <<>>, pc |-> "idle"]

ScanStart(t) == [text |-> t, i |-> 1, brace |-> 0, start |-> 0,
                 objs |-> <<>>, spans |-> <<>>, pc |-> "scan"]

\* text[start:i + 1], with start and i 0-based in the code, 1-based here
SliceShort(t, a, b) == SubSeq(t, a, b - 1)

Slice(t, a, b) == SubSeq(t, a, b)

\* ch == "{"
ScanOpen ==
    /\ scan.pc = "scan" /\ scan.i <= Len(scan.text)
    /\ scan.text[scan.i] = "{"
    /\ scan' = [scan EXCEPT !.start = IF scan.brace = 0 THEN scan.i ELSE @,
                            !.brace = @ + 1,
                            !.i = @ + 1]
    /\ UNCHANGED <<off, res, agg, mn>>

\* ch == "}"
ScanClose ==
    /\ scan.pc = "scan" /\ scan.i <= Len(scan.text)
    /\ scan.text[scan.i] = "}"
    /\ LET emit == scan.brace - 1 = 0 /\ scan.start # 0
       IN  scan' = [scan EXCEPT
                      !.brace = @ - 1,
                      !.objs = IF emit THEN Append(@, Slice(scan.text, scan.start, scan.i)) ELSE @,
                      !.spans = IF emit THEN Append(@, <<scan.start, scan.i>>) ELSE @,
                      !.start = IF emit THEN 0 ELSE @,
                      !.i = @ + 1]
    /\ UNCHANGED <<off, res, agg, mn>>

\* any other character
ScanOther ==
    /\ scan.pc = "scan" /\ scan.i <= Len(scan.text)
    /\ scan.text[scan.i] \notin {"{", "}"}
    /\ scan' = [scan EXCEPT !.i = @ + 1]
    /\ UNCHANGED <<off, res, agg, mn>>

\* return objs
ScanReturn ==
    /\ scan.pc = "scan" /\ scan.i > Len(scan.text)
    /\ scan' = [scan EXCEPT !.pc = "done"]
    /\ UNCHANGED <<off, res, agg, mn>>

OffIdle == [rows |-> <<>>, idx |-> 1, courses |-> <<>>, kept |-> <<>>, pc |-> "idle"]

ResIdle == [pc |-> "idle"]

AggIdle ==
    [pc |-> "idle", courses |-> <<>>, avg |-> None, gpa4 |-> None,
     x |-> None, y |-> None, gx |-> None, gy |-> None]

MainIdle ==
    [pc |-> "idle", docs |-> <<>>, all_rows |-> <<>>, official |-> <<>>, core |-> <<>>,
     official_avg |-> [k |-> "none", n |-> 0, d |-> 1],
     core_avg_100 |-> [k |-> "none", n |-> 0, d |-> 1],
     core_avg_4 |-> [k |-> "none", n |-> 0, d |-> 1], out |-> <<>>]

InitScan ==
    /\ scan \in {ScanStart(t) : t \in BraceTexts}
    /\ off = OffIdle /\ res = ResIdle /\ agg = AggIdle /\ mn = MainIdle

\* the text of two JSON objects with brace-free text around and between
InitRoundTrip ==
    /\ \E pre \in Fillers, o1 \in JsonObjects, mid \in Fillers,
          o2 \in JsonObjects, post \in Fillers :
          scan = ScanStart(pre \o o1 \o mid \o o2 \o post)
    /\ off = OffIdle /\ res = ResIdle /\ agg = AggIdle /\ mn = MainIdle

NextScan == ScanOpen \/ ScanClose \/ ScanOther \/ ScanReturn

SpecScan == InitScan /\ [][NextScan]_vars

SpecRoundTrip == InitRoundTrip /\ [][NextScan]_vars

---------------------------------------------------------------------------
(* Properties of the scan *)

\* the number of "{" minus the number of "}" among the first j characters
RECURSIVE Depth(_, _)
Depth(s, j) ==
    IF j = 0 THEN 0
    ELSE Depth(s, j - 1) + (IF s[j] = "{" THEN 1 ELSE IF s[j] = "}" THEN -1 ELSE 0)

Balanced(s) == Depth(s, Len(s)) = 0 /\ \A j \in 1..Len(s) : Depth(s, j) >= 0

BraceFree(s) == \A j \in 1..Len(s) : s[j] \notin {"{", "}"}

\* C10: at every point of the scan of any text, unmatched braces included,
\* the spans emitted so far lie left to right without overlap, each is the
\* slice of the text it was cut from, begins with "{", ends with "}" and is
\* brace-balanced with no prefix closing more than it opened; so a nested
\* block is never emitted on its own and an opening brace that is never
\* closed starts no span.
ScanSpansBalanced ==
    scan.pc \in {"scan", "done"} =>
        /\ Len(scan.objs) = Len(scan.spans)
        /\ \A j \in 1..Len(scan.objs) :
              LET o == scan.objs[j]
                  a == scan.spans[j][1]
                  b == scan.spans[j][2]
              IN  /\ 1 <= a /\ a < b /\ b <= Len(scan.text)
                  /\ o = SubSeq(scan.text, a, b)
                  /\ Len(o) >= 2 /\ o[1] = "{" /\ o[Len(o)] = "}"
                  /\ Balanced(o)
                  /\ \A c \in a..(b - 1) : ~Balanced(SubSeq(scan.text, a, c))
        /\ \A j \in 1..(Len(scan.spans) - 1) : scan.spans[j][2] < scan.spans[j + 1][1]

\* a finished scan of a text with an opening brace that is never closed,
\* a span holding a nested block and a second span after it
ScanSpansWitness ==
    /\ scan.pc = "done"
    /\ scan.brace > 0
    /\ Len(scan.objs) = 2
    /\ Len(scan.objs[1]) >= 4

\* C5: once the scan of pre + o1 + mid + o2 + post has returned, where o1
\* and o2 are valid JSON object texts and pre, mid and post hold no brace,
\* the result is exactly <<o1, o2>>.
ScanRoundTrip ==
    scan.pc = "done" =>
        \A a, b, c, d \in 1..Len(scan.text) :
            LET o1 == SubSeq(scan.text, a, b)
                o2 == SubSeq(scan.text, c, d)
            IN  (/\ a < b /\ b < c /\ c < d
                 /\ BraceFree(SubSeq(scan.text, 1, a - 1))
                 /\ BraceFree(SubSeq(scan.text, b + 1, c - 1))
                 /\ BraceFree(SubSeq(scan.text, d + 1, Len(scan.text)))
                 /\ IsJsonObject(o1) /\ IsJsonObject(o2))
                => scan.objs = <<o1, o2>>

---------------------------------------------------------------------------
(* Rows and the score resolver.  A row has the ten recognised keys; a key  *)
(* the JSON row lacks holds RNull, as row.get(key) gives None for it.      *)

\* GRADE_MAP: you, liang, zhong, jige, bujige
GRADE_MAP ==
    {<<<<"u4F18">>, 95>>, <<<<"u826F">>, 85>>, <<<<"u4E2D">>, 75>>,
     <<<<"u53CA", "u683C">>, 65>>, <<<<"u4E0D", "u53CA", "u683C">>, 55>>}

InGradeMap(s) == \E e \in GRADE_MAP : e[1] = s

GradeOf(s) == (CHOOSE e \in GRADE_MAP : e[1] = s)[2]

\* the placeholder tokens of parse_float_safe: daipingjiao, na, n/a
Placeholders == {<<"u5F85", "u8BC4", "u6559">>, <<"n", "a">>, <<"n", "/", "a">>}

\* except: return None
NoneIfRaised(f) == IF f = Raise THEN None ELSE f

\* the body of parse_float_safe from s = str(x).strip() on
ParseStripped(s) ==
    IF s = <<>> \/ LowerStr(s) \in Placeholders THEN None ELSE NoneIfRaised(PyFloatStr(s))

parse_float_safe(x) == IF x.t = "null" THEN None ELSE ParseStripped(Strip(PyStr(x)))

comp_names == <<<<"QMCJ", "QMCJXS">>, <<"PSCJ", "PSCJXS">>, <<"QZCJ", "QZCJXS">>>>

Msg(text, key, tw) == [text |-> text, key |-> key, total_weight |-> tw]

Ret(score, est, msg) == [score |-> score, estimated |-> est, msg |-> msg]

\* s = parse_float_safe(row.get(score_key))
ComponentScore(row, key) == parse_float_safe(row[key])

\* a missing weight taken as 100 per cent
DefaultTo100(w) == IF w = None THEN Fin(100, 1) ELSE w

ComponentWeightDefault(row, key) == DefaultTo100(parse_float_safe(row[key]))

\* w = parse_float_safe(row.get(weight_key))
ComponentWeight(row, key) == parse_float_safe(row[key])

\* the body of one iteration of the loop over comp_names, with s and w
\* parsed; acc holds total_weight, weighted_sum and have_any, and, once the
\* return inside the loop has been taken, returned = TRUE and its value
EstAccumulate(acc, score_key, s, w) ==
    IF acc.returned \/ s = None THEN acc
    ELSE IF w = None
         THEN [acc EXCEPT !.returned = TRUE,
                          !.ret = [score |-> None, estimated |-> TRUE,
                                   msg |-> Msg("Missing weight for present component",
                                               score_key, None)]]
    ELSE [acc EXCEPT !.have_any = TRUE,
                     !.weighted_sum = FAdd(@, FMul(s, w)),
                     !.total_weight = FAdd(@, w)]

EstStep(row, j, acc) ==
    EstAccumulate(acc, comp_names[j][1], ComponentScore(row, comp_names[j][1]),
                  ComponentWeight(row, comp_names[j][2]))

\* the loop over comp_names, from total_weight = weighted_sum = 0.0 and
\* have_any = False
EstLoop(row) ==
    LET after[j \in 0..Len(comp_names)] ==
            IF j = 0
            THEN [total_weight |-> Fin(0, 1), weighted_sum |-> Fin(0, 1),
                  have_any |-> FALSE, returned |-> FALSE,
                  ret |-> [score |-> None, estimated |-> TRUE, msg |-> Msg("", "", None)]]
            ELSE EstStep(row, j, after[j - 1])
    IN  after[Len(comp_names)]

\* z_est = weighted_sum / total_weight
EstNormalize(weighted_sum, total_weight) == FDiv(weighted_sum, total_weight)

\* the returns of estimate_zcj_from_row, with zcj_val parsed and the loop run
EstDecide(zcj_raw, zcj_val, acc) ==
    IF zcj_val # None
    THEN Ret(zcj_val, FALSE, Msg("ZCJ present as numeric", "", None))
    ELSE IF zcj_raw.t = "str" /\ InGradeMap(Strip(zcj_raw.s))
    THEN Ret(Fin(GradeOf(Strip(zcj_raw.s)), 1), FALSE,
             Msg("ZCJ mapped from grade label", "", None))
    ELSE IF acc.returned THEN acc.ret
    ELSE IF ~acc.have_any
    THEN Ret(None, TRUE, Msg("No component scores available to estimate", "", None))
    ELSE IF FLe(acc.total_weight, Fin(0, 1))
    THEN Ret(None, TRUE, Msg("Total weight is zero or invalid", "", None))
    ELSE Ret(EstNormalize(acc.weighted_sum, acc.total_weight), TRUE,
             Msg("Estimated from components", "", acc.total_weight))

estimate_zcj_from_row(row) == EstDecide(row.ZCJ, parse_float_safe(row.ZCJ), EstLoop(row))

\* category labels: bixiu (required), xianxuan (restricted elective),
\* renxuan (elective)
Bixiu == RStr(<<"u5FC5", "u4FEE">>)

Xianxuan == RStr(<<"u9650", "u9009">>)

Renxuan == RStr(<<"u4EFB", "u9009">>)

S(str) == RStr(str)

Row(cat, name, xf, zcj, qm, qmw, ps, psw, qz, qzw) ==
    [KCXZDM_DISPLAY |-> cat, XSKCM |-> name, XF |-> xf, ZCJ |-> zcj,
     QMCJ |-> qm, QMCJXS |-> qmw, PSCJ |-> ps, PSCJXS |-> psw,
     QZCJ |-> qz, QZCJXS |-> qzw]

---------------------------------------------------------------------------
(* One call of estimate_zcj_from_row, an action per return statement *)

ZcjPool ==
    {RNull, S(<<"8", "8">>), S(<<" ", "u826F", " ">>), S(<<"u4F18">>),
     S(<<"N", "/", "A">>), S(<<"u5F85", "u8BC4", "u6559">>), RNum(Fin(90, 1))}

ScorePool == {RNull, S(<<"9", "0">>), S(<<"N", "A">>)}

WeightPool ==
    {RNull, S(<<"7", "0">>), S(<<"-", "7", "0">>), S(<<"0">>), S(<<"i", "n", "f">>),
     S(<<"N", "A">>)}

ResStart(row) == [row |-> row, pc |-> "call", ret |-> Ret(None, FALSE, Msg("", "", None))]

InitResolve ==
    /\ \E zcj \in ZcjPool, qm \in ScorePool, qmw \in WeightPool, ps \in ScorePool,
          psw \in WeightPool, qz \in ScorePool, qzw \in WeightPool :
          res = ResStart(Row(Bixiu, RNull, S(<<"3">>), zcj, qm, qmw, ps, psw, qz, qzw))
    /\ scan = ScanIdle /\ off = OffIdle /\ agg = AggIdle /\ mn = MainIdle

EstReturnWith(text, r) ==
    /\ r.msg.text = text
    /\ res' = [res EXCEPT !.pc = "done", !.ret = r]
    /\ UNCHANGED <<scan, off, agg, mn>>

EstReturnNumeric ==
    /\ res.pc = "call"
    /\ EstReturnWith("ZCJ present as numeric", estimate_zcj_from_row(res.row))

EstReturnGradeLabel ==
    /\ res.pc = "call"
    /\ EstReturnWith("ZCJ mapped from grade label", estimate_zcj_from_row(res.row))

EstReturnMissingWeight ==
    /\ res.pc = "call"
    /\ EstReturnWith("Missing weight for present component", estimate_zcj_from_row(res.row))

EstReturnNoComponent ==
    /\ res.pc = "call"
    /\ EstReturnWith("No component scores available to estimate", estimate_zcj_from_row(res.row))

EstReturnZeroWeight ==
    /\ res.pc = "call"
    /\ EstReturnWith("Total weight is zero or invalid", estimate_zcj_from_row(res.row))

EstReturnEstimated ==
    /\ res.pc = "call"
    /\ EstReturnWith("Estimated from components", estimate_zcj_from_row(res.row))

NextResolve ==
    \/ EstReturnNumeric \/ EstReturnGradeLabel \/ EstReturnMissingWeight
    \/ EstReturnNoComponent \/ EstReturnZeroWeight \/ EstReturnEstimated

SpecResolve == InitResolve /\ [][NextResolve]_vars

---------------------------------------------------------------------------
(* extract_official_courses: the loop over rows, one row a step.           *)
(* off.kept records the index of the row behind each appended course.      *)

NoCourse ==
    [name |-> RNull, type |-> RNull, score |-> None, credit |-> None,
     estimated |-> FALSE, estimate_reason |-> Msg("", "", None)]

Course(r, credit, e) ==
    [name |-> r.XSKCM, type |-> r.KCXZDM_DISPLAY, score |-> e.score, credit |-> credit,
     estimated |-> e.estimated, estimate_reason |-> e.msg]

\* after score, is_est, msg = estimate_zcj_from_row(r)
OffScore(r, credit, e) ==
    IF e.score = None THEN [kind |-> "no_score", course |-> NoCourse]
    ELSE [kind |-> "append", course |-> Course(r, credit, e)]

\* if credit <= 0: continue
NonPositive(credit) == FLe(credit, Fin(0, 1))

\* after credit = float(credit_raw)
OffCredit(r, credit) ==
    IF credit = Raise THEN [kind |-> "credit_error", course |-> NoCourse]
    ELSE IF NonPositive(credit) THEN [kind |-> "credit_nonpositive", course |-> NoCourse]
    ELSE OffScore(r, credit, estimate_zcj_from_row(r))

\* the body of the loop for the row r: what it does (kind) and, for
\* "append", the course it appends
OffRow(r) ==
    IF r.KCXZDM_DISPLAY \notin {Bixiu, Xianxuan}
    THEN [kind |-> "category", course |-> NoCourse]
    ELSE OffCredit(r, PyFloat(r.XF))

\* extract_official_courses(rows)
extract_official_courses(rows) ==
    LET upto[j \in 0..Len(rows)] ==
            IF j = 0 THEN <<>>
            ELSE IF OffRow(rows[j]).kind = "append"
                 THEN Append(upto[j - 1], OffRow(rows[j]).course)
                 ELSE upto[j - 1]
    IN  upto[Len(rows)]

MaxRows == 2

\* dianlu (circuits)
Dianlu == <<"u7535", "u8DEF">>

OfficialRows ==
    {Row(cat, S(Dianlu), xf, zcj, c[1], c[2], RNull, RNull, RNull, RNull) :
        cat \in {Bixiu, Xianxuan, Renxuan},
        xf \in {RNull, S(<<"3">>), S(<<" ", "2", ".", "5", " ">>), S(<<"0">>),
                S(<<"n", "a", "n">>), S(<<"x">>)},
        zcj \in {RNull, S(<<"9", "0">>), S(<<"u4F18">>), S(<<"n", "a", "n">>)},
        c \in {<<RNull, RNull>>, <<S(<<"8", "0">>), S(<<"5", "0">>)>>,
               <<S(<<"8", "0">>), RNull>>}}

OffStart(rows) == [rows |-> rows, idx |-> 1, courses |-> <<>>, kept |-> <<>>, pc |-> "loop"]

InitOfficial ==
    /\ off \in {OffStart(rows) : rows \in SeqsUpTo(OfficialRows, MaxRows)}
    /\ scan = ScanIdle /\ res = ResIdle /\ agg = AggIdle /\ mn = MainIdle

OffStepWith(kind, o) ==
    /\ o.kind = kind
    /\ off' = [off EXCEPT !.idx = @ + 1,
                          !.courses = IF kind = "append" THEN Append(@, o.course) ELSE @,
                          !.kept = IF kind = "append" THEN Append(@, off.idx) ELSE @]
    /\ UNCHANGED <<scan, res, agg, mn>>

\* KCXZDM_DISPLAY not in (bixiu, xianxuan): continue
OffSkipCategory ==
    /\ off.pc = "loop" /\ off.idx <= Len(off.rows)
    /\ OffStepWith("category", OffRow(off.rows[off.idx]))

\* float(credit_raw) raised: continue
OffSkipCreditError ==
    /\ off.pc = "loop" /\ off.idx <= Len(off.rows)
    /\ OffStepWith("credit_error", OffRow(off.rows[off.idx]))

\* credit <= 0: continue
OffSkipCreditNonPositive ==
    /\ off.pc = "loop" /\ off.idx <= Len(off.rows)
    /\ OffStepWith("credit_nonpositive", OffRow(off.rows[off.idx]))

\* score is None: continue
OffSkipNoScore ==
    /\ off.pc = "loop" /\ off.idx <= Len(off.rows)
    /\ OffStepWith("no_score", OffRow(off.rows[off.idx]))

\* courses.append(...)
OffAppend ==
    /\ off.pc = "loop" /\ off.idx <= Len(off.rows)
    /\ OffStepWith("append", OffRow(off.rows[off.idx]))

\* return courses
OffReturn ==
    /\ off.pc = "loop" /\ off.idx > Len(off.rows)
    /\ off' = [off EXCEPT !.pc = "done"]
    /\ UNCHANGED <<scan, res, agg, mn>>

NextOfficial ==
    \/ OffSkipCategory \/ OffSkipCreditError \/ OffSkipCreditNonPositive
    \/ OffSkipNoScore \/ OffAppend \/ OffReturn

SpecOfficial == InitOfficial /\ [][NextOfficial]_vars

---------------------------------------------------------------------------
(* Properties of the score resolver *)

\* the j-th component's score parses as a number
ScorePresent(row, j) == parse_float_safe(row[comp_names[j][1]]) # None

\* the j-th component's weight is null or does not parse as a number
WeightAbsent(row, j) == parse_float_safe(row[comp_names[j][2]]) = None

\* ZCJ is neither numeric nor a grade label
ZcjUnresolved(row) ==
    /\ parse_float_safe(row.ZCJ) = None
    /\ ~(row.ZCJ.t = "str" /\ InGradeMap(Strip(row.ZCJ.s)))

RECURSIVE PresentWeight(_, _)
PresentWeight(row, j) ==
    IF j = 0 THEN Fin(0, 1)
    ELSE IF ScorePresent(row, j)
         THEN FAdd(PresentWeight(row, j - 1), parse_float_safe(row[comp_names[j][2]]))
         ELSE PresentWeight(row, j - 1)

RECURSIVE PresentSum(_, _)
PresentSum(row, j) ==
    IF j = 0 THEN Fin(0, 1)
    ELSE IF ScorePresent(row, j)
         THEN FAdd(PresentSum(row, j - 1),
                   FMul(parse_float_safe(row[comp_names[j][1]]),
                        parse_float_safe(row[comp_names[j][2]])))
         ELSE PresentSum(row, j - 1)

\* C4: when ZCJ is neither numeric nor a grade label and every present
\* component score has a parseable weight, with W the sum of the weights of
\* the present components: if no score is present or W <= 0 the result is
\* (None, true); if W > 0 the result is (z, true) with z * W equal to the
\* sum of score * weight over the present components.
EstimateIsNormalizedMean ==
    (res.pc = "done" /\ ZcjUnresolved(res.row)
     /\ \A j \in 1..Len(comp_names) : ScorePresent(res.row, j) => ~WeightAbsent(res.row, j))
        => LET n == Len(comp_names)
               W == PresentWeight(res.row, n)
               T == PresentSum(res.row, n)
           IN  /\ res.ret.estimated
               /\ ((\A j \in 1..n : ~ScorePresent(res.row, j)) \/ FLe(W, Fin(0, 1)))
                     => res.ret.score = None
               /\ ((\E j \in 1..n : ScorePresent(res.row, j)) /\ FLe(Fin(0, 1), W) /\ ~IsZero(W))
                     => (res.ret.score # None /\ FMul(res.ret.score, W) = T)

---------------------------------------------------------------------------
(* Properties of extract_official_courses *)

\* C1: every course record produced has a finite score and a finite credit
\* greater than 0.
OfficialCoursesFinite ==
    \A j \in 1..Len(off.courses) :
        /\ off.courses[j].score.k = "fin"
        /\ off.courses[j].credit.k = "fin"
        /\ off.courses[j].credit.n > 0

\* the inclusion test: a recognised category, XF a number greater than 0,
\* and a score from the resolver
Eligible(r) ==
    /\ r.KCXZDM_DISPLAY \in {Bixiu, Xianxuan}
    /\ PyFloat(r.XF) # Raise
    /\ FLe(Fin(0, 1), PyFloat(r.XF)) /\ ~IsZero(PyFloat(r.XF))
    /\ estimate_zcj_from_row(r).score # None

\* C2: the output holds exactly the rows that pass the inclusion test, in
\* the order of the input.
OfficialIffEligible ==
    off.pc = "done" =>
        LET want == SelectSeq(off.rows, Eligible)
        IN  /\ Len(off.courses) = Len(want)
            /\ \A j \in 1..Len(want) :
                  /\ off.courses[j].name = want[j].XSKCM
                  /\ off.courses[j].type = want[j].KCXZDM_DISPLAY
                  /\ off.courses[j].credit = PyFloat(want[j].XF)
                  /\ off.courses[j].score = estimate_zcj_from_row(want[j]).score
            /\ \A j \in 1..Len(off.kept) : Eligible(off.rows[off.kept[j]])
            /\ \A j \in 1..(Len(off.kept) - 1) : off.kept[j] < off.kept[j + 1]

---------------------------------------------------------------------------
(* The aggregators *)

\* sum(c["score"] * c["credit"] for c in courses), from 0
RECURSIVE SumScoreCredit(_)
SumScoreCredit(courses) ==
    IF courses = <<>> THEN Fin(0, 1)
    ELSE FAdd(SumScoreCredit(SubSeq(courses, 1, Len(courses) - 1)),
              FMul(courses[Len(courses)].score, courses[Len(courses)].credit))

\* sum(c["credit"] for c in courses), from 0
RECURSIVE SumCredit(_)
SumCredit(courses) ==
    IF courses = <<>> THEN Fin(0, 1)
    ELSE FAdd(SumCredit(SubSeq(courses, 1, Len(courses) - 1)), courses[Len(courses)].credit)

\* s / w if w else None
QuotientOrNone(s, w) == IF Truthy(w) THEN FDiv(s, w) ELSE None

weighted_avg(courses) == QuotientOrNone(SumScoreCredit(courses), SumCredit(courses))

\* the thresholds of score_to_gpa, highest first, with the grade points in
\* tenths
GpaTable ==
    <<<<93, 40>>, <<90, 37>>, <<87, 33>>, <<83, 30>>, <<80, 27>>,
      <<77, 23>>, <<73, 20>>, <<70, 17>>, <<67, 13>>, <<63, 10>>>>

\* score > threshold
ReachesStrictly(score, th) == FGe(score, Fin(th, 1)) /\ score # Fin(th, 1)

\* score >= threshold
Reaches(score, th) == FGe(score, Fin(th, 1))

score_to_gpa(score) ==
    IF \E j \in 1..Len(GpaTable) : Reaches(score, GpaTable[j][1])
    THEN Fin(GpaTable[CHOOSE j \in 1..Len(GpaTable) :
                          /\ Reaches(score, GpaTable[j][1])
                          /\ \A h \in 1..(j - 1) : ~Reaches(score, GpaTable[h][1])][2], 10)
    ELSE Fin(0, 1)

\* total += score_to_gpa(c["score"]) * c["credit"], from 0.0
RECURSIVE SumGpaCredit(_)
SumGpaCredit(courses) ==
    IF courses = <<>> THEN Fin(0, 1)
    ELSE FAdd(SumGpaCredit(SubSeq(courses, 1, Len(courses) - 1)),
              FMul(score_to_gpa(courses[Len(courses)].score), courses[Len(courses)].credit))

weighted_gpa_4(courses) == QuotientOrNone(SumGpaCredit(courses), SumCredit(courses))

---------------------------------------------------------------------------
(* Calls of the aggregators on given courses, and of score_to_gpa on two   *)
(* given scores                                                            *)

MaxCourses == 2

MaxHalfScore == 200

AggStart(courses, x, y) ==
    [pc |-> "call", courses |-> courses, avg |-> None, gpa4 |-> None,
     x |-> x, y |-> y, gx |-> None, gy |-> None]

ScoredCourse(score, credit) == [NoCourse EXCEPT !.score = score, !.credit = credit]

AggCourses ==
    {ScoredCourse(sc, cr) :
        sc \in {Fin(0, 1), Fin(87, 1), Fin(191, 2)},
        cr \in {Fin(0, 1), Fin(2, 1), Fin(3, 1), Fin(-2, 1), Inf(1)}}

InitAgg ==
    /\ agg \in {AggStart(cs, None, None) : cs \in SeqsUpTo(AggCourses, MaxCourses)}
    /\ scan = ScanIdle /\ off = OffIdle /\ res = ResIdle /\ mn = MainIdle

CallWeightedAvg ==
    /\ agg.pc = "call"
    /\ agg' = [agg EXCEPT !.pc = "avg", !.avg = weighted_avg(agg.courses)]
    /\ UNCHANGED <<scan, off, res, mn>>

CallWeightedGpa4 ==
    /\ agg.pc = "avg"
    /\ agg' = [agg EXCEPT !.pc = "done", !.gpa4 = weighted_gpa_4(agg.courses)]
    /\ UNCHANGED <<scan, off, res, mn>>

NextAgg == CallWeightedAvg \/ CallWeightedGpa4

SpecAgg == InitAgg /\ [][NextAgg]_vars

\* the scores 0, 0.5, ..., the score 92.999, and the non-finite floats
GpaScores ==
    {Fin(n, 2) : n \in 0..MaxHalfScore} \cup {Fin(92999, 1000), NaN, Inf(1), Inf(-1)}

InitGpa ==
    /\ agg \in {AggStart(<<>>, x, y) : x \in GpaScores, y \in GpaScores}
    /\ scan = ScanIdle /\ off = OffIdle /\ res = ResIdle /\ mn = MainIdle

CallScoreToGpaX ==
    /\ agg.pc = "call"
    /\ agg' = [agg EXCEPT !.pc = "second", !.gx = score_to_gpa(agg.x)]
    /\ UNCHANGED <<scan, off, res, mn>>

CallScoreToGpaY ==
    /\ agg.pc = "second"
    /\ agg' = [agg EXCEPT !.pc = "done", !.gy = score_to_gpa(agg.y)]
    /\ UNCHANGED <<scan, off, res, mn>>

NextGpa == CallScoreToGpaX \/ CallScoreToGpaY

SpecGpa == InitGpa /\ [][NextGpa]_vars

---------------------------------------------------------------------------
(* Properties of the aggregators *)

\* C6: weighted_avg returns sum(score * credit) / sum(credit); it returns
\* None for the empty list and for a list whose total credit is 0; for a
\* single course of credit c > 0 and score s it returns s; weighted_gpa_4
\* returns None when the total credit is 0.
WeightedAvgContract ==
    /\ agg.pc \in {"avg", "done"} =>
          /\ agg.courses = <<>> => agg.avg = None
          /\ IsZero(SumCredit(agg.courses)) => agg.avg = None
          /\ ~IsZero(SumCredit(agg.courses))
                => agg.avg = FDiv(SumScoreCredit(agg.courses), SumCredit(agg.courses))
          /\ (Len(agg.courses) = 1 /\ FLe(Fin(0, 1), agg.courses[1].credit)
              /\ ~IsZero(agg.courses[1].credit))
                => agg.avg = agg.courses[1].score
    /\ agg.pc = "done" => (IsZero(SumCredit(agg.courses)) => agg.gpa4 = None)

\* the claim's table: threshold, grade point in tenths
ClaimedBands ==
    {<<93, 40>>, <<90, 37>>, <<87, 33>>, <<83, 30>>, <<80, 27>>,
     <<77, 23>>, <<73, 20>>, <<70, 17>>, <<67, 13>>, <<63, 10>>}

\* the grade point, in tenths, of the highest band whose threshold the
\* score is at or above; 0 when it is below them all
ClaimedTenths(score) ==
    LET reached == {b \in ClaimedBands : FLe(Fin(b[1], 1), score)}
    IN  IF reached = {} THEN 0
        ELSE (CHOOSE b \in reached : \A c \in reached : c[1] <= b[1])[2]

\* C7: score_to_gpa gives every score the grade point of the highest
\* threshold it reaches, 0.0 below them all; a threshold belongs to the
\* higher band (93.0 gives 4.0, 92.999 gives 3.7); a lower score never gets
\* a higher grade point.
ScoreToGpaBands ==
    /\ agg.pc \in {"second", "done"} =>
          /\ agg.gx = Fin(ClaimedTenths(agg.x), 10)
          /\ agg.x = Fin(93, 1) => agg.gx = Fin(4, 1)
          /\ agg.x = Fin(92999, 1000) => agg.gx = Fin(37, 10)
    /\ agg.pc = "done" =>
          /\ agg.gy = Fin(ClaimedTenths(agg.y), 10)
          /\ FLe(agg.x, agg.y) => FLe(agg.gx, agg.gy)

\* both calls made, on the score 92.999 and on the threshold 93
ScoreToGpaWitness ==
    /\ agg.pc = "done"
    /\ agg.x = Fin(92999, 1000) /\ agg.gx = Fin(37, 10)
    /\ agg.y = Fin(93, 1) /\ agg.gy = Fin(4, 1)

---------------------------------------------------------------------------
(* The core-course test; characters outside ASCII are named by code point *)

EXCLUDE_COURSES ==
    {<<"u7535", "u5B50", "u4FE1", "u606F", "u7C7B", "u4E13", "u4E1A", "u5B66", "u4E60", "u6982", "u8BBA">>}

CORE_KEYWORDS ==
    {<<"u7535", "u8DEF">>, <<"u4FE1", "u53F7">>, <<"u901A", "u4FE1">>, <<"u7535", "u5B50">>,
     <<"u6570", "u5B57">>, <<"u6A21", "u62DF">>, <<"u7535", "u78C1">>,
     <<"u6982", "u7387">>, <<"u968F", "u673A">>, <<"u7EBF", "u6027", "u4EE3", "u6570">>,
     <<"u6570", "u5B66", "u5206", "u6790">>, <<"u590D", "u53D8">>,
     <<"u8BA1", "u7EC4">>, <<"u8BA1", "u7B97", "u673A", "u7EC4", "u7EC7">>,
     <<"u64CD", "u4F5C", "u7CFB", "u7EDF">>, <<"l", "i", "n", "u", "x">>,
     <<"u5FAE", "u673A", "u7CFB", "u7EDF">>,
     <<"u65E0", "u7EBF">>, <<"u7F51", "u7EDC">>}

\* the tests of is_core_major on a name that is not empty
CoreName(name, lname) ==
    /\ ~\E ex \in EXCLUDE_COURSES : Contains(ex, name)
    /\ \E k \in CORE_KEYWORDS : Contains(LowerStr(k), lname)

is_core_major(course_name) ==
    /\ course_name.t = "str"
    /\ course_name.s # <<>>
    /\ CoreName(course_name.s, LowerStr(course_name.s))

\* [c for c in official_courses if is_core_major(c["name"])]
core_courses(official) == SelectSeq(official, LAMBDA c : is_core_major(c.name))

---------------------------------------------------------------------------
(* main: the report *)

\* n / d rounded to an integer, ties to even, for n >= 0
RoundHalfEven(n, d) ==
    IF 2 * (n % d) > d \/ (2 * (n % d) = d /\ (n \div d) % 2 = 1)
    THEN (n \div d) + 1
    ELSE n \div d

\* f"{x:.3f}"
Format3f(x) ==
    CASE x.k = "nan" -> <<"n", "a", "n">>
      [] x.k = "inf" -> IF x.n < 0 THEN <<"-", "i", "n", "f">> ELSE <<"i", "n", "f">>
      [] OTHER -> (IF x.n < 0 THEN <<"-">> ELSE <<>>)
                  \o DecimalStr(RoundHalfEven(Abs(x.n) * 1000, x.d), 3)

NotAvailable == <<"N", "/", "A">>

\* f"{avg:.3f}" if avg is not None else "N/A"
RenderIfNotNone(avg) == IF avg # None THEN Format3f(avg) ELSE NotAvailable

\* f"{avg:.3f}" if avg else "N/A"
Render(avg) == IF Truthy(avg) THEN Format3f(avg) ELSE NotAvailable

Line(kind, text) == [kind |-> kind, text |-> text]

\* one printed line for each course of the list
CourseLines(kind, courses) == [j \in 1..Len(courses) |-> Line(kind, PyStr(courses[j].name))]

\* a document found by extract_json_objects in the text: one that
\* json.loads rejects, one without datas.xscjcx.rows, or one with rows
MalformedDoc == [kind |-> "malformed", rows |-> <<>>]

NoPathDoc == [kind |-> "nopath", rows |-> <<>>]

RowsDoc(rows) == [kind |-> "rows", rows |-> rows]

\* all_rows.extend(rows), document after document
RECURSIVE AllRows(_)
AllRows(docs) ==
    IF docs = <<>> THEN <<>>
    ELSE AllRows(SubSeq(docs, 1, Len(docs) - 1)) \o docs[Len(docs)].rows

Loads(docs) == \A j \in 1..Len(docs) : docs[j].kind = "rows"

MaxDocs == 2

MaxDocRows == 1

Tiyu == <<"u4F53", "u80B2">>

MainRows ==
    {Row(cat, name, xf, zcj, RNull, RNull, RNull, RNull, RNull, RNull) :
        cat \in {Bixiu, Renxuan},
        name \in {S(Dianlu), S(Tiyu), RNull},
        xf \in {S(<<"3">>), S(<<"2">>)},
        zcj \in {S(<<"9", "0">>), S(<<"0">>), RNull}}

MainDocs == {MalformedDoc, NoPathDoc} \cup {RowsDoc(rs) : rs \in SeqsUpTo(MainRows, MaxDocRows)}

MainStart(docs) ==
    [pc |-> "accept", docs |-> docs, all_rows |-> <<>>, official |-> <<>>, core |-> <<>>,
     official_avg |-> None, core_avg_100 |-> None, core_avg_4 |-> None, out |-> <<>>]

InitMain ==
    /\ \E docs \in SeqsUpTo(MainDocs, MaxDocs) : mn = MainStart(docs)
    /\ scan = ScanIdle /\ off = OffIdle /\ res = ResIdle /\ agg = AggIdle

MainEmit(pc, lines) == [mn EXCEPT !.pc = pc, !.out = mn.out \o lines]

\* the disclaimer and the Enter that accepts it
MainAccept ==
    /\ mn.pc = "accept"
    /\ mn' = MainEmit("load", <<Line("disclaimer", <<>>), Line("accept", <<>>), Line("accept", <<>>),
                               Line("accept", <<>>), Line("prompt", <<>>)>>)
    /\ UNCHANGED <<scan, off, res, agg>>

MainLoad ==
    /\ mn.pc = "load"
    /\ Loads(mn.docs)
    /\ mn' = [mn EXCEPT !.pc = "official", !.all_rows = AllRows(mn.docs)]
    /\ UNCHANGED <<scan, off, res, agg>>

\* json.loads or the path lookup raises; nothing catches it
MainLoadRaises ==
    /\ mn.pc = "load"
    /\ ~Loads(mn.docs)
    /\ mn' = [mn EXCEPT !.pc = "raised"]
    /\ UNCHANGED <<scan, off, res, agg>>

MainOfficialWith(official) ==
    mn' = [MainEmit("official_avg",
                    <<Line("official_header", <<>>)>> \o CourseLines("official_course", official))
              EXCEPT !.official = official]

MainOfficial ==
    /\ mn.pc = "official"
    /\ MainOfficialWith(extract_official_courses(mn.all_rows))
    /\ UNCHANGED <<scan, off, res, agg>>

MainOfficialAvgWith(avg) ==
    mn' = [MainEmit("core", <<Line("official_avg_header", <<>>), Line("official_avg", Render(avg))>>)
              EXCEPT !.official_avg = avg]

MainOfficialAvg ==
    /\ mn.pc = "official_avg"
    /\ MainOfficialAvgWith(weighted_avg(mn.official))
    /\ UNCHANGED <<scan, off, res, agg>>

MainCoreWith(core) ==
    mn' = [MainEmit("core_avg", <<Line("core_header", <<>>)>> \o CourseLines("core_course", core))
              EXCEPT !.core = core]

MainCore ==
    /\ mn.pc = "core"
    /\ MainCoreWith(core_courses(mn.official))
    /\ UNCHANGED <<scan, off, res, agg>>

MainCoreAvgWith(avg100, avg4) ==
    mn' = [MainEmit("gpa_header",
                    <<Line("core_avg_100_header", <<>>), Line("core_avg_100", Render(avg100))>>)
              EXCEPT !.core_avg_100 = avg100, !.core_avg_4 = avg4]

MainCoreAvg ==
    /\ mn.pc = "core_avg"
    /\ MainCoreAvgWith(weighted_avg(mn.core), weighted_gpa_4(mn.core))
    /\ UNCHANGED <<scan, off, res, agg>>

\* the header of the 4.0 average; no value is printed after it
MainGpaHeader ==
    /\ mn.pc = "gpa_header"
    /\ mn' = MainEmit("exit", <<Line("core_avg_4_header", <<>>)>>)
    /\ UNCHANGED <<scan, off, res, agg>>

\* the three Enters before the exit
MainExit ==
    /\ mn.pc = "exit"
    /\ mn' = MainEmit("done", <<Line("prompt", <<>>), Line("prompt", <<>>), Line("prompt", <<>>)>>)
    /\ UNCHANGED <<scan, off, res, agg>>

NextMain ==
    \/ MainAccept \/ MainLoad \/ MainLoadRaises \/ MainOfficial \/ MainOfficialAvg
    \/ MainCore \/ MainCoreAvg \/ MainGpaHeader \/ MainExit

SpecMain == InitMain /\ [][NextMain]_vars

---------------------------------------------------------------------------
(* Properties of the report *)

Repeat(x, n) == [j \in 1..n |-> x]

ReportKinds == {"official_course", "official_avg", "core_course", "core_avg_100", "core_avg_4"}

\* the kinds of the report's lines that carry a course or a value, in order
ReportOrder == [j \in 1..Len(SelectSeq(mn.out, LAMBDA l : l.kind \in ReportKinds)) |->
                   SelectSeq(mn.out, LAMBDA l : l.kind \in ReportKinds)[j].kind]

\* C8: after acceptance the report holds, in this order, the official
\* courses, their weighted average, the core courses, the core 100-point
\* average and the core 4.0 average.
ReportHasAllParts ==
    mn.pc = "done" =>
        /\ ReportOrder = Repeat("official_course", Len(mn.official)) \o <<"official_avg">>
                         \o Repeat("core_course", Len(mn.core))
                         \o <<"core_avg_100", "core_avg_4">>
        /\ \A j \in 1..Len(mn.out) :
              mn.out[j].kind = "core_avg_4" => mn.out[j].text = RenderIfNotNone(mn.core_avg_4)

\* a number with exactly three digits after the point
ThreeDecimals(text) ==
    /\ Len(text) >= 5
    /\ text[Len(text) - 3] = "."
    /\ \A j \in 1..Len(text) :
          j # Len(text) - 3 => (IsDigit(text[j]) \/ (j = 1 /\ text[j] = "-"))

RendersAs(text, avg) ==
    /\ text = NotAvailable <=> avg = None
    /\ avg # None => ThreeDecimals(text)

\* C9: an aggregate that is undefined is shown as N/A and a defined one
\* as a number with exactly three decimals; N/A is shown only for an
\* undefined aggregate, so an average of 0 is shown as 0.000.
NotAvailableIffUndefined ==
    \A j \in 1..Len(mn.out) :
        /\ mn.out[j].kind = "official_avg" => RendersAs(mn.out[j].text, mn.official_avg)
        /\ mn.out[j].kind = "core_avg_100" => RendersAs(mn.out[j].text, mn.core_avg_100)

=============================================================================
